---- MODULE Spec2Model ----
(***************************************************************************)
(* A model of advanced-vector/vector.h: RawMemory<T>, a block of raw       *)
(* storage, and Vector<T>, which keeps size_ constructed elements in it.   *)
(*                                                                         *)
(* A buffer is a sequence of slots; slot i of the C++ buffer is element    *)
(* i + 1 of the sequence.  A slot is Raw (no object lives there), or holds *)
(* a live object: one of the Values of T, or MovedFrom, the valid but *)
(* unspecified state a T is left in after it was moved from.  The null     *)
(* pointer is the empty sequence.                                          *)
(*                                                                         *)
(* Every operation of Vector is an operator from the vector(s) and an      *)
(* execution context e to the resulting vector(s) and context.  The        *)
(* context carries what the operation cannot see in the vector: which      *)
(* element operation throws (e.fail, counted over the operations of T that *)
(* may throw, 0 for none), whether operator new throws (e.oom), and the    *)
(* bookkeeping of the heap: blocks allocated and not released, objects     *)
(* whose storage was released while they were alive (leaked), and whether  *)
(* an object was constructed over a live one, or destroyed, read or        *)
(* assigned in a raw slot (ub).                                            *)
(***************************************************************************)
EXTENDS Integers, Sequences, FiniteSets, TLC

\* Largest capacity a Vector is given in the model.
MaxCap == 4
\* Most slots the two Vectors of the client own together.
MaxHeap == 4
\* Most objects leaked in a run of the model.
MaxLeaked == 1

\* A slot of raw, uninitialized storage.
Raw == -1
\* The state of a T that was moved from.
MovedFrom == -2
\* The value of a value-initialized T.
DefaultVal == 0

\* The values of T the client stores.
Values == {0, 1}
Names == {"a", "b"}

VARIABLES
  vec,     \* the two Vector objects of the client: name -> Vector
  traits,  \* the element type T: what std::is_..._v<T> answer
  heap     \* blocks allocated and not released, leaked objects, ub

vars == <<vec, traits, heap>>

Min(x, y) == IF x <= y THEN x ELSE y

----------------------------------------------------------------------------
(* Buffers *)

\* The number of live objects in slots [off, off + n) of buf.
LiveIn(buf, off, n) ==
  Cardinality({i \in 1..Len(buf) : i > off /\ i <= off + n /\ buf[i] # Raw})

\* Some slot of [off, off + n) lies outside buf or is raw.
AnyRaw(buf, off, n) ==
  \E i \in (off + 1)..(off + n) : i > Len(buf) \/ buf[i] = Raw

\* Some slot of [off, off + n) lies outside buf or holds a live object.
AnyLive(buf, off, n) ==
  \E i \in (off + 1)..(off + n) : i > Len(buf) \/ buf[i] # Raw

\* buf with slots [off, off + n) set to f(i), i the C++ index of the slot.
Fill(buf, off, n, f(_)) ==
  [i \in 1..Len(buf) |-> IF i > off /\ i <= off + n THEN f(i - 1) ELSE buf[i]]

----------------------------------------------------------------------------
(* The element type T *)

\* Whether this operation of T may throw.  Copy, value and converting
\* constructors may; the move constructor may unless T is nothrow move
\* constructible; the assignments may unless T is nothrow move assignable
\* (e.assign; the model lets T's copy assignment throw when its move
\* assignment may).
MayThrow(kind, e) ==
  CASE kind = "copy_ctor" -> TRUE
    [] kind = "value_ctor" -> TRUE
    [] kind = "args_ctor" -> TRUE
    [] kind = "move_ctor" -> ~traits.nothrow_move_constructible
    [] OTHER -> e.assign

\* Of n operations of this kind done one after another, the one that throws
\* is the (Done(kind, e, n) + 1)-th, if Throws(kind, e, n).
Throws(kind, e, n) ==
  MayThrow(kind, e) /\ e.fail > e.done /\ e.fail <= e.done + n

Done(kind, e, n) == IF Throws(kind, e, n) THEN e.fail - e.done - 1 ELSE n

\* The context after those operations.
Ran(kind, e, n) ==
  IF ~MayThrow(kind, e) THEN e
  ELSE IF Throws(kind, e, n) THEN [e EXCEPT !.done = e.fail, !.thrown = "throw"]
  ELSE [e EXCEPT !.done = e.done + n]

Ub(e, cond) == [e EXCEPT !.ub = e.ub \/ cond]

\* The context after made objects were constructed and gone were destroyed.
Count(e, made, gone) ==
  [e EXCEPT !.ctors = e.ctors + made, !.dtors = e.dtors + gone]

----------------------------------------------------------------------------
(* The algorithms of <memory> and <algorithm> the Vector is written with. *)
(* Ranges are given as a buffer, the offset of the first slot and a count. *)

\* std::destroy_n: the objects in [off, off + n) are destroyed.
destroy_n(buf, off, n, e) ==
  [buf |-> Fill(buf, off, n, LAMBDA i : Raw),
   e   |-> Count(Ub(e, AnyRaw(buf, off, n)), 0, n)]

\* A copy loop without a handler: the copies made before a throw stay.
CopyLoop(src, soff, n, dst, doff, e) ==
  LET threw == Throws("copy_ctor", e, n)
      made  == Done("copy_ctor", e, n)
  IN  [dst |-> Fill(dst, doff, made, LAMBDA i : src[soff + (i - doff) + 1]),
       e   |-> Count(Ran("copy_ctor", e, n), made, 0)]

\* std::uninitialized_copy_n: constructs copies of src[soff .. soff + n) in
\* the raw slots dst[doff .. doff + n), in order.  If a copy constructor
\* throws, the copies made so far are destroyed and the exception goes on.
uninitialized_copy_n(src, soff, n, dst, doff, e) ==
  LET threw == Throws("copy_ctor", e, n)
      made  == Done("copy_ctor", e, n)
      tried == IF threw THEN made + 1 ELSE n
  IN  [dst |-> IF threw THEN dst
               ELSE Fill(dst, doff, n, LAMBDA i : src[soff + (i - doff) + 1]),
       e   |-> Count(Ub(Ran("copy_ctor", e, n),
                        AnyRaw(src, soff, tried) \/ AnyLive(dst, doff, tried)),
                     made, IF threw THEN made ELSE 0)]

\* std::uninitialized_move_n: as uninitialized_copy_n, with the move
\* constructor: an element that was moved is left MovedFrom in src, also
\* when a later move constructor throws.
uninitialized_move_n(src, soff, n, dst, doff, e) ==
  LET threw == Throws("move_ctor", e, n)
      moved == Done("move_ctor", e, n)
      tried == IF threw THEN moved + 1 ELSE n
  IN  [src |-> Fill(src, soff, moved, LAMBDA i : MovedFrom),
       dst |-> IF threw THEN dst
               ELSE Fill(dst, doff, n, LAMBDA i : src[soff + (i - doff) + 1]),
       e   |-> Count(Ub(Ran("move_ctor", e, n),
                        AnyRaw(src, soff, tried) \/ AnyLive(dst, doff, tried)),
                     moved, IF threw THEN moved ELSE 0)]

\* std::uninitialized_value_construct_n: constructs n objects T() in the
\* raw slots dst[doff .. doff + n); on a throw destroys those it made.
uninitialized_value_construct_n(dst, doff, n, e) ==
  LET threw == Throws("value_ctor", e, n)
      made  == Done("value_ctor", e, n)
      tried == IF threw THEN made + 1 ELSE n
  IN  [dst |-> IF threw THEN dst
               ELSE Fill(dst, doff, n, LAMBDA i : DefaultVal),
       e   |-> Count(Ub(Ran("value_ctor", e, n), AnyLive(dst, doff, tried)),
                     made, IF threw THEN made ELSE 0)]

\* std::copy_n: copy-assigns src[soff .. soff + n) to dst[doff .. doff + n),
\* in order.  The elements assigned before a throw stay assigned.
copy_n(src, soff, n, dst, doff, e) ==
  LET threw == Throws("copy_assign", e, n)
      made  == Done("copy_assign", e, n)
      tried == IF threw THEN made + 1 ELSE n
  IN  [dst |-> Fill(dst, doff, made, LAMBDA i : src[soff + (i - doff) + 1]),
       e   |-> Ub(Ran("copy_assign", e, n),
                  AnyRaw(src, soff, tried) \/ AnyRaw(dst, doff, tried))]

\* k move-assignments within buf, one after another: the first assigns slot
\* s to slot d, the next one slot s + dir to slot d + dir, and so on.  The
\* source of a move-assignment is left MovedFrom.
RECURSIVE MoveAssignSteps(_, _, _, _, _)
MoveAssignSteps(buf, s, d, dir, k) ==
  IF k = 0 THEN [buf |-> buf, ub |-> FALSE]
  ELSE LET bad  == s + 1 > Len(buf) \/ d + 1 > Len(buf)
                   \/ buf[s + 1] = Raw \/ buf[d + 1] = Raw
           step == IF bad \/ s = d THEN buf
                   ELSE [buf EXCEPT ![d + 1] = buf[s + 1], ![s + 1] = MovedFrom]
           rest == MoveAssignSteps(step, s + dir, d + dir, dir, k - 1)
       IN  [buf |-> rest.buf, ub |-> bad \/ rest.ub]

\* A shift to the range ending at d_last that assigns the first element
\* first.
move_forward(buf, first, last, d_last, e) ==
  LET n == last - first
      r == MoveAssignSteps(buf, first, d_last - n, 1,
                           Done("move_assign", e, n))
  IN  [buf |-> r.buf, e |-> Ub(Ran("move_assign", e, n), r.ub)]

\* std::move_backward(first, last, d_last): move-assigns [first, last) to
\* the range ending at d_last, the last element first.
move_backward(buf, first, last, d_last, e) ==
  LET n == last - first
      r == MoveAssignSteps(buf, last - 1, d_last - 1, -1,
                           Done("move_assign", e, n))
  IN  [buf |-> r.buf, e |-> Ub(Ran("move_assign", e, n), r.ub)]

\* std::move(first, last, d_first): move-assigns [first, last) to the range
\* starting at d_first, the first element first.
move(buf, first, last, d_first, e) ==
  LET n == last - first
      r == MoveAssignSteps(buf, first, d_first, 1, Done("move_assign", e, n))
  IN  [buf |-> r.buf, e |-> Ub(Ran("move_assign", e, n), r.ub)]

----------------------------------------------------------------------------
(* RawMemory<T> *)

NullPtr == <<>>

\* RawMemory::Allocate: n raw slots, the null pointer for n = 0; operator
\* new throws std::bad_alloc when the context says so.
Allocate(n) == IF n # 0 THEN [i \in 1..n |-> Raw] ELSE NullPtr

\* RawMemory(): no buffer.
RawMemoryDefault == [buffer_ |-> NullPtr, capacity_ |-> 0]

\* RawMemory(capacity): mem is meaningful when e.thrown = "none".
RawMemoryNew(capacity, e) ==
  IF capacity # 0 /\ e.oom
  THEN [mem |-> RawMemoryDefault, e |-> [e EXCEPT !.thrown = "bad_alloc"]]
  ELSE [mem |-> [buffer_ |-> Allocate(capacity), capacity_ |-> capacity],
        e   |-> IF capacity # 0
                THEN [e EXCEPT !.blocks = e.blocks + 1, !.allocs = e.allocs + 1]
                ELSE e]

\* RawMemory::Deallocate: operator delete; of the null pointer, nothing.
\* An object still alive in the block is never destroyed: it is leaked.
Deallocate(buf, e) ==
  IF buf = NullPtr THEN e
  ELSE [e EXCEPT !.blocks = e.blocks - 1, !.frees = e.frees + 1,
                 !.leaked = e.leaked + LiveIn(buf, 0, Len(buf))]

\* ~RawMemory()
RawMemoryDelete(mem, e) == Deallocate(mem.buffer_, e)

----------------------------------------------------------------------------
(* Vector<T>.  An operation that throws leaves e.thrown # "none".  The    *)
(* statements of a function body follow one another as                    *)
(*   Let(first statement, LAMBDA its result : the rest of the body).      *)

Let(x, F(_)) == F(x)

\* A name of the client that holds no Vector (before construction, after
\* destruction).
NoVector == [alive |-> FALSE, data_ |-> RawMemoryDefault, size_ |-> 0]

Threw(e) == e.thrown # "none"

Capacity(v) == v.data_.capacity_

Size(v) == v.size_

\* The values of the elements [0, size_), as operator[] reads them.
Elements(v) == [i \in 1..v.size_ |-> v.data_.buffer_[i]]

WithBuffer(v, buf) == [v EXCEPT !.data_.buffer_ = buf]

\* Vector()
VectorDefault == [alive |-> TRUE, data_ |-> RawMemoryDefault, size_ |-> 0]

\* Vector(size_t size).  When the constructor throws, the member data_ is
\* destroyed and no Vector comes to exist.
VectorSized(size, e) ==
  Let(RawMemoryNew(size, e), LAMBDA m :
  IF Threw(m.e) THEN [v |-> NoVector, e |-> m.e]
  ELSE Let(uninitialized_value_construct_n(m.mem.buffer_, 0, size, m.e),
       LAMBDA c :
  IF Threw(c.e) THEN [v |-> NoVector, e |-> Deallocate(c.dst, c.e)]
  ELSE [v |-> [alive |-> TRUE,
               data_ |-> [m.mem EXCEPT !.buffer_ = c.dst],
               size_ |-> size],
        e |-> c.e]))

\* Vector(const Vector &other)
VectorCopy(other, e) ==
  Let(RawMemoryNew(other.size_, e), LAMBDA m :
  IF Threw(m.e) THEN [v |-> NoVector, e |-> m.e]
  ELSE Let(uninitialized_copy_n(other.data_.buffer_, 0, other.size_,
                                m.mem.buffer_, 0, m.e),
       LAMBDA c :
  IF Threw(c.e) THEN [v |-> NoVector, e |-> Deallocate(c.dst, c.e)]
  ELSE [v |-> [alive |-> TRUE,
               data_ |-> [m.mem EXCEPT !.buffer_ = c.dst],
               size_ |-> other.size_],
        e |-> c.e]))

\* RawMemory::Swap
RawMemorySwap(mem, other) ==
  [mem   |-> [buffer_ |-> other.buffer_, capacity_ |-> other.capacity_],
   other |-> [buffer_ |-> mem.buffer_, capacity_ |-> mem.capacity_]]

\* Vector::Swap
Swap(v, other) ==
  Let(RawMemorySwap(v.data_, other.data_), LAMBDA d :
  [v     |-> [v EXCEPT !.data_ = d.mem, !.size_ = other.size_],
   other |-> [other EXCEPT !.data_ = d.other, !.size_ = v.size_]])

\* A move constructor that copies and leaves other as it is.
VectorMoveByCopy(other, e) ==
  Let(VectorCopy(other, e), LAMBDA c :
  [v |-> c.v, other |-> other, e |-> c.e])

\* Vector(Vector &&other)
VectorMove(other, e) ==
  Let(Swap(VectorDefault, other), LAMBDA s :
  [v |-> s.v, other |-> s.other, e |-> e])

\* Vector::DestroyN
DestroyN(buf, n, e) == destroy_n(buf, 0, n, e)

\* A destructor that releases the storage and destroys no element.
VectorDeleteNoDestroy(v, e) == Deallocate(v.data_.buffer_, e)

\* ~Vector(), and ~RawMemory() of data_ after it.
VectorDelete(v, e) ==
  Let(DestroyN(v.data_.buffer_, v.size_, e), LAMBDA d :
  Deallocate(d.buf, d.e))

\* A copy assignment that destroys its elements before it copies rhs.
CopyAssignDestroyFirst(v, rhs, e) ==
  Let(DestroyN(v.data_.buffer_, v.size_, e), LAMBDA d :
  Let(VectorCopy(rhs, d.e), LAMBDA rhs_copy :
  IF Threw(rhs_copy.e)
  THEN [v |-> [WithBuffer(v, d.buf) EXCEPT !.size_ = 0], e |-> rhs_copy.e]
  ELSE [v |-> rhs_copy.v, e |-> Deallocate(d.buf, rhs_copy.e)]))

\* Vector::operator=(const Vector &rhs), rhs.size_ > data_.Capacity()
CopyAssignBySwap(v, rhs, e) ==
  Let(VectorCopy(rhs, e), LAMBDA rhs_copy :
  IF Threw(rhs_copy.e) THEN [v |-> v, e |-> rhs_copy.e]
  ELSE Let(Swap(v, rhs_copy.v), LAMBDA s :
       [v |-> s.v, e |-> VectorDelete(s.other, rhs_copy.e)]))

\* An assignment in place that assigns the common prefix and sets size_.
CopyAssignPrefixOnly(v, rhs, e) ==
  Let(copy_n(rhs.data_.buffer_, 0, Min(rhs.size_, v.size_),
             v.data_.buffer_, 0, e), LAMBDA a :
  [v |-> [WithBuffer(v, a.dst) EXCEPT !.size_ = rhs.size_], e |-> a.e])

\* Vector::operator=(const Vector &rhs), rhs.size_ <= data_.Capacity()
CopyAssignInPlace(v, rhs, e) ==
  Let(copy_n(rhs.data_.buffer_, 0, Min(rhs.size_, v.size_),
             v.data_.buffer_, 0, e), LAMBDA a :
  IF Threw(a.e) THEN [v |-> WithBuffer(v, a.dst), e |-> a.e]
  ELSE IF rhs.size_ < v.size_
  THEN Let(destroy_n(a.dst, rhs.size_, v.size_ - rhs.size_, a.e), LAMBDA d :
       [v |-> [WithBuffer(v, d.buf) EXCEPT !.size_ = rhs.size_], e |-> d.e])
  ELSE Let(uninitialized_copy_n(rhs.data_.buffer_, v.size_,
                                rhs.size_ - v.size_, a.dst, v.size_, a.e),
       LAMBDA u :
       IF Threw(u.e) THEN [v |-> WithBuffer(v, u.dst), e |-> u.e]
       ELSE [v |-> [WithBuffer(v, u.dst) EXCEPT !.size_ = rhs.size_],
             e |-> u.e]))

\* Vector::operator=(const Vector &rhs); same: this == &rhs.
CopyAssign(v, rhs, same, e) ==
  IF same THEN [v |-> v, e |-> e]
  ELSE IF rhs.size_ > Capacity(v) THEN CopyAssignBySwap(v, rhs, e)
  ELSE CopyAssignInPlace(v, rhs, e)

\* Vector::operator=(Vector &&rhs); same: this == &rhs.
MoveAssign(v, rhs, same, e) ==
  IF same THEN [v |-> v, other |-> rhs, e |-> e]
  ELSE Let(Swap(v, rhs), LAMBDA s : [v |-> s.v, other |-> s.other, e |-> e])

\* The branch of Vector::MoveIfItsPossible that moves.
MovePath(data, off, size, new_data, noff, e) ==
  uninitialized_move_n(data, off, size, new_data, noff, e)

\* The branch of Vector::MoveIfItsPossible that copies.
CopyPath(data, off, size, new_data, noff, e) ==
  Let(uninitialized_copy_n(data, off, size, new_data, noff, e), LAMBDA c :
  [src |-> data, dst |-> c.dst, e |-> c.e])

\* A transfer that always moves.
AlwaysMoves == TRUE

\* The condition of the if constexpr of Vector::MoveIfItsPossible.
MovesElements ==
  traits.nothrow_move_constructible \/ ~traits.copy_constructible

\* MoveIfItsPossible that moves whatever T is.
MoveAlways(data, off, size, new_data, noff, e) ==
  MovePath(data, off, size, new_data, noff, e)

\* Vector::MoveIfItsPossible: the elements data[off .. off + size) go to the
\* raw slots new_data[noff ..): moved if T is nothrow move constructible or
\* not copy constructible, copied otherwise.
MoveIfItsPossible(data, off, size, new_data, noff, e) ==
  IF MovesElements THEN MovePath(data, off, size, new_data, noff, e)
  ELSE CopyPath(data, off, size, new_data, noff, e)

\* A reallocation that destroys the elements before it allocates, and
\* transfers none.
ReallocateEmpty(v, new_capacity, e) ==
  Let(destroy_n(v.data_.buffer_, 0, v.size_, e), LAMBDA d :
  Let(RawMemoryNew(new_capacity, d.e), LAMBDA new_data :
  IF Threw(new_data.e)
  THEN [v |-> [WithBuffer(v, d.buf) EXCEPT !.size_ = 0], e |-> new_data.e]
  ELSE [v |-> [v EXCEPT !.data_ = new_data.mem, !.size_ = 0],
        e |-> Deallocate(d.buf, new_data.e)]))

\* Vector::Reserve, new_capacity > data_.Capacity()
Reallocate(v, new_capacity, e) ==
  Let(RawMemoryNew(new_capacity, e), LAMBDA new_data :
  IF Threw(new_data.e) THEN [v |-> v, e |-> new_data.e]
  ELSE Let(MoveIfItsPossible(v.data_.buffer_, 0, v.size_,
                             new_data.mem.buffer_, 0, new_data.e),
       LAMBDA m :
  IF Threw(m.e)
  THEN [v |-> WithBuffer(v, m.src), e |-> Deallocate(m.dst, m.e)]
  ELSE Let(destroy_n(m.src, 0, v.size_, m.e), LAMBDA d :
       Let(RawMemorySwap([v.data_ EXCEPT !.buffer_ = d.buf],
                         [new_data.mem EXCEPT !.buffer_ = m.dst]),
       LAMBDA s :
       [v |-> [v EXCEPT !.data_ = s.mem],
        e |-> RawMemoryDelete(s.other, d.e)]))))

\* Reserve that makes the capacity new_capacity, or size_ if that is more.
ReserveExact(v, new_capacity, e) ==
  IF new_capacity = Capacity(v) THEN [v |-> v, e |-> e]
  ELSE Reallocate(v, IF new_capacity < v.size_ THEN v.size_
                     ELSE new_capacity, e)

\* Reserve that grows to at least twice the capacity.
ReserveDoubling(v, new_capacity, e) ==
  IF new_capacity <= Capacity(v) THEN [v |-> v, e |-> e]
  ELSE Reallocate(v, IF new_capacity < 2 * Capacity(v)
                     THEN 2 * Capacity(v) ELSE new_capacity, e)

\* Vector::Reserve
Reserve(v, new_capacity, e) ==
  IF new_capacity <= Capacity(v) THEN [v |-> v, e |-> e]
  ELSE Reallocate(v, new_capacity, e)

\* Resize that sets size_ before it constructs the new elements.
ResizeSizeFirst(v, new_size, e) ==
  IF v.size_ > new_size
  THEN Let(destroy_n(v.data_.buffer_, new_size, v.size_ - new_size, e),
       LAMBDA d :
       [v |-> [WithBuffer(v, d.buf) EXCEPT !.size_ = new_size], e |-> d.e])
  ELSE Let(Reserve(v, new_size, e), LAMBDA r :
       IF Threw(r.e) THEN r
       ELSE Let(uninitialized_value_construct_n(
                  r.v.data_.buffer_, r.v.size_, new_size - r.v.size_, r.e),
            LAMBDA c :
            [v |-> [WithBuffer(r.v, c.dst) EXCEPT !.size_ = new_size],
             e |-> c.e]))

\* Vector::Resize
Resize(v, new_size, e) ==
  IF v.size_ > new_size
  THEN Let(destroy_n(v.data_.buffer_, new_size, v.size_ - new_size, e),
       LAMBDA d :
       [v |-> [WithBuffer(v, d.buf) EXCEPT !.size_ = new_size], e |-> d.e])
  ELSE Let(Reserve(v, new_size, e), LAMBDA r :
       IF Threw(r.e) THEN r
       ELSE Let(uninitialized_value_construct_n(
                  r.v.data_.buffer_, r.v.size_, new_size - r.v.size_, r.e),
            LAMBDA c :
            IF Threw(c.e) THEN [v |-> WithBuffer(r.v, c.dst), e |-> c.e]
            ELSE [v |-> [WithBuffer(r.v, c.dst) EXCEPT !.size_ = new_size],
                  e |-> c.e]))

\* PopBack that forgets std::destroy_at.
PopBackNoDestroy(v, e) ==
  [v |-> [v EXCEPT !.size_ = v.size_ - 1], e |-> e]

\* Vector::PopBack.  Called on an empty Vector, size_ wraps around and the
\* object destroyed lies outside the buffer: the caller keeps size_ > 0.
PopBack(v, e) ==
  Let(destroy_n(v.data_.buffer_, v.size_ - 1, 1, e), LAMBDA d :
  [v |-> [WithBuffer(v, d.buf) EXCEPT !.size_ = v.size_ - 1], e |-> d.e])

----------------------------------------------------------------------------
(* Insertion and removal.  The constructor arguments of the new element   *)
(* are arg: the constructor they select (arg.kind: "copy_ctor" for a      *)
(* const T&, "move_ctor" for a T&&, "args_ctor" for anything else) and    *)
(* the value the element gets: arg.val, or, for an argument that refers   *)
(* to element arg.ref >= 0 of this Vector, what that slot holds when the  *)
(* constructor runs.                                                       *)

ArgValue(arg, buf) == IF arg.ref < 0 THEN arg.val ELSE buf[arg.ref + 1]

\* new (buf + off) T(std::forward<Args>(args)...), args read from data.
Construct(buf, off, arg, data, e) ==
  [buf |-> IF Throws(arg.kind, e, 1) THEN buf
           ELSE [buf EXCEPT ![off + 1] = ArgValue(arg, data)],
   e   |-> Count(Ub(Ran(arg.kind, e, 1),
                    AnyLive(buf, off, 1)
                      \/ (arg.ref >= 0 /\ AnyRaw(data, arg.ref, 1))),
                 IF Throws(arg.kind, e, 1) THEN 0 ELSE 1, 0)]

\* Growth by one slot.
GrownByOne(size) == size + 1

\* The capacity Vector::EmplaceWithRelocation gives new_data.
Grown(size) == IF size = 0 THEN 1 ELSE size * 2

\* A relocating Emplace whose handlers both destroy the new element only.
EmplaceWithOneHandler(v, index, arg, e) ==
  Let(RawMemoryNew(Grown(v.size_), e), LAMBDA new_data :
  IF Threw(new_data.e) THEN [v |-> v, e |-> new_data.e, ret |-> index]
  ELSE Let(Construct(new_data.mem.buffer_, index, arg, v.data_.buffer_,
                     new_data.e),
       LAMBDA c :
  IF Threw(c.e) THEN [v |-> v, e |-> Deallocate(c.buf, c.e), ret |-> index]
  ELSE Let(MoveIfItsPossible(v.data_.buffer_, 0, index, c.buf, 0, c.e),
       LAMBDA p :
  IF Threw(p.e)
  THEN Let(destroy_n(p.dst, index, 1, p.e), LAMBDA pc :
       [v |-> WithBuffer(v, p.src), e |-> Deallocate(pc.buf, pc.e),
        ret |-> index])
  ELSE Let(MoveIfItsPossible(p.src, index, v.size_ - index,
                             p.dst, index + 1, p.e),
       LAMBDA q :
  IF Threw(q.e)
  THEN Let(destroy_n(q.dst, index, 1, q.e), LAMBDA qc :
       [v |-> WithBuffer(v, q.src), e |-> Deallocate(qc.buf, qc.e),
        ret |-> index])
  ELSE Let(destroy_n(q.src, 0, v.size_, q.e), LAMBDA d :
       Let(RawMemorySwap([v.data_ EXCEPT !.buffer_ = d.buf],
                         [new_data.mem EXCEPT !.buffer_ = q.dst]),
       LAMBDA s :
       [v |-> [v EXCEPT !.data_ = s.mem, !.size_ = v.size_ + 1],
        e |-> RawMemoryDelete(s.other, d.e), ret |-> index]))))))

\* Vector::EmplaceWithRelocation; index = pos - begin().
EmplaceWithRelocation(v, index, arg, e) ==
  Let(RawMemoryNew(Grown(v.size_), e), LAMBDA new_data :
  IF Threw(new_data.e) THEN [v |-> v, e |-> new_data.e, ret |-> index]
  ELSE Let(Construct(new_data.mem.buffer_, index, arg, v.data_.buffer_,
                     new_data.e),
       LAMBDA c :
  IF Threw(c.e) THEN [v |-> v, e |-> Deallocate(c.buf, c.e), ret |-> index]
  ELSE \* the first try block and its handler
       Let(MoveIfItsPossible(v.data_.buffer_, 0, index, c.buf, 0, c.e),
       LAMBDA p :
  IF Threw(p.e)
  THEN Let(destroy_n(p.dst, index, 1, p.e), LAMBDA pc :
       [v |-> WithBuffer(v, p.src), e |-> Deallocate(pc.buf, pc.e),
        ret |-> index])
  ELSE \* the second try block and its handler
       Let(MoveIfItsPossible(p.src, index, v.size_ - index,
                             p.dst, index + 1, p.e),
       LAMBDA q :
  IF Threw(q.e)
  THEN Let(destroy_n(q.dst, 0, index + 1, q.e), LAMBDA qc :
       [v |-> WithBuffer(v, q.src), e |-> Deallocate(qc.buf, qc.e),
        ret |-> index])
  ELSE Let(destroy_n(q.src, 0, v.size_, q.e), LAMBDA d :
       Let(RawMemorySwap([v.data_ EXCEPT !.buffer_ = d.buf],
                         [new_data.mem EXCEPT !.buffer_ = q.dst]),
       LAMBDA s :
       [v |-> [v EXCEPT !.data_ = s.mem, !.size_ = v.size_ + 1],
        e |-> RawMemoryDelete(s.other, d.e), ret |-> index]))))))

\* Vector::EmplaceWithoutRelocation, pos == end()
EmplaceAtEnd(v, index, arg, e) ==
  Let(Construct(v.data_.buffer_, v.size_, arg, v.data_.buffer_, e),
  LAMBDA c :
  IF Threw(c.e) THEN [v |-> v, e |-> c.e, ret |-> index]
  ELSE [v |-> [WithBuffer(v, c.buf) EXCEPT !.size_ = v.size_ + 1],
        e |-> c.e, ret |-> index])

\* A step that constructs nothing in the trailing slot.
MoveLastNowhere(v, e) == [buf |-> v.data_.buffer_, e |-> e]

\* new (data_ + size_) T(std::move(data_[size_ - 1])): the last element is
\* left moved-from.
MoveLast(v, e) ==
  Let(Construct(v.data_.buffer_, v.size_,
                [kind |-> "move_ctor", val |-> 0, ref |-> v.size_ - 1],
                v.data_.buffer_, e),
  LAMBDA m :
  [buf |-> IF Threw(m.e) THEN m.buf ELSE [m.buf EXCEPT ![v.size_] = MovedFrom],
   e   |-> m.e])

\* Vector::EmplaceWithoutRelocation, pos before end(), after the temporary
\* copy was constructed.
EmplaceShift(v, index, copy) ==
  Let(MoveLast(v, copy.e), LAMBDA m :
  IF Threw(m.e) THEN [v |-> v, e |-> m.e, ret |-> index]
  ELSE Let(move_backward(m.buf, index, v.size_ - 1, v.size_, m.e),
       LAMBDA b :
  IF Threw(b.e) THEN [v |-> WithBuffer(v, b.buf), e |-> b.e, ret |-> index]
  ELSE \* data_[index] = std::move(copy)
       Let(Ub(Ran("move_assign", b.e, 1), AnyRaw(b.buf, index, 1)),
       LAMBDA a :
  IF Threw(a) THEN [v |-> WithBuffer(v, b.buf), e |-> a, ret |-> index]
  ELSE [v |-> [WithBuffer(v, [b.buf EXCEPT ![index + 1] = copy.val])
                 EXCEPT !.size_ = v.size_ + 1],
        e |-> a, ret |-> index])))

\* An insertion in place that shifts the elements first and constructs
\* the new value from its argument afterwards.
EmplaceInsideLate(v, index, arg, e) ==
  Let(MoveLast(v, e), LAMBDA m :
  Let(move_backward(m.buf, index, v.size_ - 1, v.size_, m.e), LAMBDA b :
  [v |-> [WithBuffer(v, [b.buf EXCEPT ![index + 1] = ArgValue(arg, b.buf)])
            EXCEPT !.size_ = v.size_ + 1],
   e |-> Count(b.e, 1, 1), ret |-> index]))

\* Vector::EmplaceWithoutRelocation, pos before end().  The temporary copy
\* is an automatic object: it is destroyed however the call ends.
EmplaceInside(v, index, arg, e) ==
  \* T copy(std::forward<Args>(args)...)
  Let([val |-> ArgValue(arg, v.data_.buffer_),
       e   |-> Count(Ub(Ran(arg.kind, e, 1),
                        arg.ref >= 0 /\ AnyRaw(v.data_.buffer_, arg.ref, 1)),
                     IF Throws(arg.kind, e, 1) THEN 0 ELSE 1, 0)],
  LAMBDA copy :
  IF Threw(copy.e) THEN [v |-> v, e |-> copy.e, ret |-> index]
  ELSE Let(EmplaceShift(v, index, copy), LAMBDA r :
       [r EXCEPT !.e = Count(r.e, 0, 1)]))

\* Vector::EmplaceWithoutRelocation; index = pos - begin().
EmplaceWithoutRelocation(v, index, arg, e) ==
  IF index = v.size_ THEN EmplaceAtEnd(v, index, arg, e)
  ELSE EmplaceInside(v, index, arg, e)

\* Vector::Emplace
Emplace(v, index, arg, e) ==
  IF v.size_ = Capacity(v) THEN EmplaceWithRelocation(v, index, arg, e)
  ELSE EmplaceWithoutRelocation(v, index, arg, e)

\* EmplaceBack that passes begin() for end().
EmplaceFront(v, arg, e) == Emplace(v, 0, arg, e)

\* Vector::EmplaceBack
EmplaceBack(v, arg, e) == Emplace(v, v.size_, arg, e)

\* Vector::PushBack(const T &value) (kind = "copy_ctor") and
\* Vector::PushBack(T &&value) (kind = "move_ctor")
PushBack(v, value, kind, e) ==
  EmplaceBack(v, [kind |-> kind, val |-> value, ref |-> -1], e)

\* Vector::Insert(pos, const T &value) and Vector::Insert(pos, T &&value)
Insert(v, index, value, kind, e) ==
  Emplace(v, index, [kind |-> kind, val |-> value, ref |-> -1], e)

\* Erase that destroys the last element and shifts nothing.
EraseNoShift(v, position, e) ==
  Let(destroy_n(v.data_.buffer_, v.size_ - 1, 1, e), LAMBDA d :
  [v |-> [WithBuffer(v, d.buf) EXCEPT !.size_ = v.size_ - 1],
   e |-> d.e, ret |-> position])

\* Vector::Erase; position = pos - begin(), which the caller keeps < size_.
Erase(v, position, e) ==
  Let(move(v.data_.buffer_, position + 1, v.size_, position, e), LAMBDA m :
  IF Threw(m.e)
  THEN [v |-> WithBuffer(v, m.buf), e |-> m.e, ret |-> position]
  ELSE Let(destroy_n(m.buf, v.size_ - 1, 1, m.e), LAMBDA d :
       [v |-> [WithBuffer(v, d.buf) EXCEPT !.size_ = v.size_ - 1],
        e |-> d.e, ret |-> position]))

----------------------------------------------------------------------------
(* The client: two names, a and b, each holding a Vector<T> or nothing,   *)
(* and every public operation called within its preconditions.  Either    *)
(* name is constructed, destroyed, and the operand of copies, moves and   *)
(* swaps; the operations on one Vector are called on a, whose buffer b    *)
(* takes over, and gives back, by Swap and by moves.  A call is one step, *)
(* whether it returns or throws.                                          *)

\* The ways a call can be made to fail: no failure, operator new throwing
\* (when the call allocates), or the k-th throwing operation of T, k <= n.
Faults(allocates, n) ==
  {[fail |-> k, oom |-> FALSE] : k \in 0..n}
    \cup (IF allocates THEN {[fail |-> 0, oom |-> TRUE]} ELSE {})

\* The context a call starts in.
Ctx(f) ==
  [fail |-> f.fail, done |-> 0, oom |-> f.oom,
   assign |-> ~traits.nothrow_move_assignable,
   thrown |-> "none", allocs |-> 0, frees |-> 0, ctors |-> 0, dtors |-> 0,
   blocks |-> heap.blocks, leaked |-> heap.leaked, ub |-> heap.ub]

\* The fault asked for is the one that happened.
Happened(f, e) ==
  /\ f.oom <=> e.thrown = "bad_alloc"
  /\ f.fail # 0 <=> e.thrown = "throw"

\* The model's bounds on the state after a call.
Bounded(w) ==
  /\ \A x \in Names : Capacity(w[x]) <= MaxCap
  /\ Capacity(w["a"]) + Capacity(w["b"]) <= MaxHeap

\* What a call leaves behind.  After undefined behaviour nothing is known
\* of the program, and the model follows it no further.
Return(w, e) ==
  /\ ~heap.ub
  /\ Bounded(w)
  /\ e.leaked <= MaxLeaked
  /\ vec' = w
  /\ heap' = [blocks |-> e.blocks, leaked |-> e.leaked, ub |-> e.ub]
  /\ UNCHANGED traits

NoFault == [fail |-> 0, oom |-> FALSE]

\* The call on x made with fault f ended as r.
Returns(x, f, r) ==
  /\ Happened(f, r.e)
  /\ Return([vec EXCEPT ![x] = r.v], r.e)

\* The call on x and y, which cannot fail, ended as r.
Returns2(x, y, r) ==
  Return([vec EXCEPT ![y] = r.other, ![x] = r.v], r.e)

Kinds == {"copy_ctor", "move_ctor"}

\* T(const T&) exists.
Usable(kind) == kind = "copy_ctor" => traits.copy_constructible

\* The assignments of T that a call can run, of which one may throw when
\* T's assignment is not nothrow: n of them.
Assigns(n) == IF traits.nothrow_move_assignable THEN 0 ELSE n

\* No Vector exists, nothing is allocated; T is one of the types whose
\* assignments do not throw.
Init ==
  /\ vec = [x \in Names |-> NoVector]
  /\ traits \in [nothrow_move_constructible : BOOLEAN,
                 copy_constructible : BOOLEAN,
                 nothrow_move_assignable : {TRUE}]
  /\ heap = [blocks |-> 0, leaked |-> 0, ub |-> FALSE]

\* As Init, for a copyable type whose move constructor does not throw and
\* whose assignments may.
InitAssign ==
  /\ vec = [x \in Names |-> NoVector]
  /\ traits \in [nothrow_move_constructible : {TRUE},
                 copy_constructible : {TRUE},
                 nothrow_move_assignable : {FALSE}]
  /\ heap = [blocks |-> 0, leaked |-> 0, ub |-> FALSE]

\* Vector<T> x;
NewDefault(x) ==
  /\ ~vec[x].alive
  /\ Returns(x, NoFault, [v |-> VectorDefault, e |-> Ctx(NoFault)])

\* Vector<T> x(n);
NewSized(x) ==
  /\ ~vec[x].alive
  /\ \E n \in 0..MaxCap : \E f \in Faults(n # 0, n) :
       Returns(x, f, VectorSized(n, Ctx(f)))

\* Vector<T> x(y);
NewCopy(x, y) ==
  /\ ~vec[x].alive /\ vec[y].alive /\ traits.copy_constructible
  /\ \E f \in Faults(vec[y].size_ # 0, vec[y].size_) :
       Returns(x, f, VectorCopy(vec[y], Ctx(f)))

\* Vector<T> x(std::move(y));
NewMove(x, y) ==
  /\ ~vec[x].alive /\ vec[y].alive
  /\ Returns2(x, y, VectorMove(vec[y], Ctx(NoFault)))

\* The Vector x goes out of scope.
Delete(x) ==
  /\ vec[x].alive
  /\ Returns(x, NoFault,
             [v |-> NoVector, e |-> VectorDelete(vec[x], Ctx(NoFault))])

\* x = y;
CallCopyAssign(x, y) ==
  /\ vec[x].alive /\ vec[y].alive /\ traits.copy_constructible
  /\ \E f \in Faults(x # y /\ vec[y].size_ > Capacity(vec[x]),
                     vec[y].size_ + Assigns(vec[x].size_)) :
       Returns(x, f, CopyAssign(vec[x], vec[y], x = y, Ctx(f)))

\* x = std::move(y);
CallMoveAssign(x, y) ==
  /\ vec[x].alive /\ vec[y].alive
  /\ Returns2(x, y, MoveAssign(vec[x], vec[y], x = y, Ctx(NoFault)))

\* x.Swap(y);
CallSwap(x, y) ==
  /\ vec[x].alive /\ vec[y].alive
  /\ Let(IF x = y THEN [v |-> vec[x], other |-> vec[x]]
         ELSE Swap(vec[x], vec[y]),
         LAMBDA s : Return([vec EXCEPT ![y] = s.other, ![x] = s.v],
                           Ctx(NoFault)))

\* x.Reserve(n);
CallReserve(x) ==
  /\ vec[x].alive
  /\ \E n \in 0..MaxCap : \E f \in Faults(n > Capacity(vec[x]), vec[x].size_) :
       Returns(x, f, Reserve(vec[x], n, Ctx(f)))

\* x.Resize(n);
CallResize(x) ==
  /\ vec[x].alive
  /\ \E n \in 0..MaxCap : \E f \in Faults(n > Capacity(vec[x]), n) :
       Returns(x, f, Resize(vec[x], n, Ctx(f)))

\* x.PushBack(value); with an lvalue (copy_ctor) or an rvalue (move_ctor)
CallPushBack(x) ==
  /\ vec[x].alive
  /\ \E value \in Values : \E kind \in Kinds :
     \E f \in Faults(vec[x].size_ = Capacity(vec[x]), vec[x].size_ + 1) :
       /\ Usable(kind)
       /\ Returns(x, f, PushBack(vec[x], value, kind, Ctx(f)))

\* x.EmplaceBack(args...);
CallEmplaceBack(x) ==
  /\ vec[x].alive
  /\ \E value \in Values :
     \E f \in Faults(vec[x].size_ = Capacity(vec[x]), vec[x].size_ + 1) :
       Returns(x, f, EmplaceBack(vec[x],
                       [kind |-> "args_ctor", val |-> value, ref |-> -1],
                       Ctx(f)))

\* x.PopBack(); on a Vector that is not empty
CallPopBack(x) ==
  /\ vec[x].alive /\ vec[x].size_ > 0
  /\ Returns(x, NoFault, PopBack(vec[x], Ctx(NoFault)))

\* x.Insert(x.begin() + index, value); index <= size
CallInsert(x) ==
  /\ vec[x].alive
  /\ \E index \in 0..vec[x].size_ : \E value \in Values : \E kind \in Kinds :
     \E f \in Faults(vec[x].size_ = Capacity(vec[x]),
                     vec[x].size_ + 1 + Assigns(vec[x].size_)) :
       /\ Usable(kind)
       /\ Returns(x, f, Insert(vec[x], index, value, kind, Ctx(f)))

\* x.Emplace(x.begin() + index, args...); index <= size
CallEmplace(x) ==
  /\ vec[x].alive
  /\ \E index \in 0..vec[x].size_ : \E value \in Values :
     \E f \in Faults(vec[x].size_ = Capacity(vec[x]),
                     vec[x].size_ + 1 + Assigns(vec[x].size_)) :
       Returns(x, f, Emplace(vec[x], index,
                       [kind |-> "args_ctor", val |-> value, ref |-> -1],
                       Ctx(f)))

\* x.Erase(x.begin() + position); position < size
CallErase(x) ==
  /\ vec[x].alive
  /\ \E position \in 0..(vec[x].size_ - 1) :
     \E f \in Faults(FALSE, Assigns(vec[x].size_)) :
       Returns(x, f, Erase(vec[x], position, Ctx(f)))

\* The Vector the client reserves, resizes, inserts into and erases from.
Subject == {"a"}

Next ==
  \/ \E x \in Names : NewDefault(x)
  \/ \E x \in Names : NewSized(x)
  \/ \E x, y \in Names : NewCopy(x, y)
  \/ \E x, y \in Names : NewMove(x, y)
  \/ \E x \in Names : Delete(x)
  \/ \E x, y \in Names : CallCopyAssign(x, y)
  \/ \E x, y \in Names : CallMoveAssign(x, y)
  \/ \E x, y \in Names : CallSwap(x, y)
  \/ \E x \in Subject : CallReserve(x)
  \/ \E x \in Subject : CallResize(x)
  \/ \E x \in Subject : CallPushBack(x)
  \/ \E x \in Subject : CallEmplaceBack(x)
  \/ \E x \in Subject : CallPopBack(x)
  \/ \E x \in Subject : CallInsert(x)
  \/ \E x \in Subject : CallEmplace(x)
  \/ \E x \in Subject : CallErase(x)

Spec == Init /\ [][Next]_vars

\* The same client with an element type whose assignments may throw.
SpecAssign == InitAssign /\ [][Next]_vars

----------------------------------------------------------------------------
(* What the specification of the repository claims, checked of the model. *)

\* The Vectors that exist.
Alive == {x \in Names : vec[x].alive}

\* The model accounts for every block and every object: each Vector with a
\* buffer owns one block, nothing was leaked, and no operation touched an
\* object that was not there.
HeapAccounted ==
  /\ heap.blocks = Cardinality({x \in Alive : vec[x].data_.buffer_ # NullPtr})
  /\ heap.leaked = 0
  /\ ~heap.ub
  /\ \A x \in Names : ~vec[x].alive => vec[x] = NoVector

\* Exactly the slots [0, size_) of v hold live elements.
LivePrefix(v) ==
  \A i \in 1..Len(v.data_.buffer_) :
    (v.data_.buffer_[i] # Raw) <=> (i <= v.size_)

\* C1: at every operation boundary, whether the operations returned or
\* threw std::bad_alloc or an exception of a constructor of T, each Vector
\* has size <= capacity, its buffer has capacity slots, and exactly the
\* slots [0, size) hold live elements.
C1_SizeCapacityLive ==
  \A x \in Alive :
    /\ Size(vec[x]) <= Capacity(vec[x])
    /\ Len(vec[x].data_.buffer_) = Capacity(vec[x])
    /\ LivePrefix(vec[x])

\* A Vector with spare capacity that holds an element left moved-from by a
\* transfer that threw, next to a second Vector that is not empty.
C1_Witness ==
  /\ vec["a"].alive /\ vec["b"].alive
  /\ Size(vec["a"]) = 2 /\ Capacity(vec["a"]) = 3
  /\ vec["a"].data_.buffer_[1] = MovedFrom
  /\ Size(vec["b"]) = 1

\* A call made with no fault, and one in which the k-th throwing operation
\* of T throws.
Plain == Ctx(NoFault)

Failing(k) == Ctx([fail |-> k, oom |-> FALSE])

\* The constructors an argument of PushBack and Insert can select.
UsableKinds == {kind \in Kinds : Usable(kind)}

\* The Vector after PushBack of the values of s, one call for each, on v.
RECURSIVE PushedBack(_, _, _)
PushedBack(v, s, kind) ==
  IF s = <<>> THEN v
  ELSE PushedBack(PushBack(v, Head(s), kind, Plain).v, Tail(s), kind)

\* The sequences of values the client pushes: of up to MaxCap + 1 values,
\* so that the buffer is relocated at sizes 0, 1, 2 and 4.
\* v holds the values of s in their order, and so does, for the values of
\* any n further PushBack calls, the Vector those calls leave.
RECURSIVE KeepsOrder(_, _, _, _)
KeepsOrder(v, s, n, kind) ==
  /\ Elements(v) = s
  /\ Size(v) = Len(s)
  /\ n > 0 =>
       \A value \in Values :
         Let(PushBack(v, value, kind, Plain), LAMBDA r :
           ~Threw(r.e) /\ KeepsOrder(r.v, Append(s, value), n - 1, kind))

\* C2: after each of up to MaxCap + 1 PushBack calls on an empty Vector,
\* the elements read are the values pushed, in the order of the calls, and
\* size is the number of calls; and, on any Vector, a PushBack that returns
\* has appended its value and changed no other element.
C2_PushBackKeepsOrder ==
  \A x \in Alive : \A kind \in UsableKinds :
    /\ vec[x] = VectorDefault => KeepsOrder(vec[x], <<>>, MaxCap + 1, kind)
    /\ \A value \in Values :
         Let(PushBack(vec[x], value, kind, Plain), LAMBDA r :
           /\ ~Threw(r.e)
           /\ Elements(r.v) = Append(Elements(vec[x]), value)
           /\ Size(r.v) = Size(vec[x]) + 1)

\* The Vector a is what three PushBack calls on an empty Vector leave,
\* after relocations at sizes 0, 1 and 2.
C2_Witness ==
  /\ vec["a"].alive
  /\ vec["a"] = PushedBack(VectorDefault, <<1, 0, 1>>, "move_ctor")
  /\ Elements(vec["a"]) = <<1, 0, 1>> /\ Capacity(vec["a"]) = 4

\* C3: a Reserve(n), n > capacity, that copies and whose k-th copy
\* constructor throws, k in 1..size, has destroyed the k - 1 elements it
\* constructed in the new buffer, has released the new buffer, and leaves
\* the Vector (size, capacity and every slot of the buffer) as it was.
C3_ReserveCopyStrong ==
  \A x \in Alive :
    ~MovesElements =>
      \A n \in (Capacity(vec[x]) + 1)..(MaxCap + 1) :
      \A k \in 1..Size(vec[x]) :
        Let(Reserve(vec[x], n, Failing(k)), LAMBDA r :
          /\ r.e.thrown = "throw"
          /\ r.v = vec[x]
          /\ r.e.ctors = k - 1 /\ r.e.dtors = k - 1
          /\ r.e.allocs = 1 /\ r.e.frees = 1
          /\ r.e.blocks = heap.blocks /\ r.e.leaked = heap.leaked
          /\ ~r.e.ub)

\* A full Vector of three elements of a T that is copied: Reserve(4) with
\* the third copy constructor throwing leaves it as it is.
C3_Witness ==
  /\ vec["a"].alive /\ ~MovesElements
  /\ Elements(vec["a"]) = <<1, 0, 1>> /\ Capacity(vec["a"]) = 3
  /\ Reserve(vec["a"], 4, Failing(3)).e.thrown = "throw"
  /\ Reserve(vec["a"], 4, Failing(3)).v = vec["a"]

\* C4 as the specification states it: when a copy constructor throws during
\* x = y, the size, the capacity and the elements of x are as before.
C4_CopyAssignStrong ==
  \A x \in Alive : \A y \in Alive \ {x} :
    traits.copy_constructible =>
      \A k \in 1..Size(vec[y]) :
        Let(CopyAssign(vec[x], vec[y], FALSE, Failing(k)), LAMBDA r :
          r.e.thrown = "throw" =>
            /\ Size(r.v) = Size(vec[x])
            /\ Capacity(r.v) = Capacity(vec[x])
            /\ Elements(r.v) = Elements(vec[x]))

\* C4, amended: when a copy constructor throws during x = y, the size and
\* the capacity of x are as before, the elements the call constructed are
\* destroyed and nothing is leaked; the elements of x are as before if y's
\* size exceeds x's capacity; otherwise they were copy-assigned from y
\* before the first construction, and hold the values of y's first elements.
C4_CopyAssignOnThrow ==
  \A x \in Alive : \A y \in Alive \ {x} :
    traits.copy_constructible =>
      \A k \in 1..Size(vec[y]) :
        Let(CopyAssign(vec[x], vec[y], FALSE, Failing(k)), LAMBDA r :
          r.e.thrown = "throw" =>
            /\ Size(r.v) = Size(vec[x])
            /\ Capacity(r.v) = Capacity(vec[x])
            /\ LivePrefix(r.v)
            /\ r.e.ctors = r.e.dtors
            /\ r.e.blocks = heap.blocks /\ r.e.leaked = heap.leaked
            /\ ~r.e.ub
            /\ Elements(r.v) =
                 IF Size(vec[y]) > Capacity(vec[x]) THEN Elements(vec[x])
                 ELSE SubSeq(Elements(vec[y]), 1, Size(vec[x])))

\* b = <<0, 0>> fits the capacity of a = <<1>>: a = b assigns a[0] and
\* throws in the copy constructor of a[1], leaving a = <<0>>.
C4_Witness ==
  /\ vec["a"].alive /\ vec["b"].alive /\ traits.copy_constructible
  /\ Elements(vec["a"]) = <<1>> /\ Capacity(vec["a"]) = 2
  /\ Elements(vec["b"]) = <<0, 0>>
  /\ CopyAssign(vec["a"], vec["b"], FALSE, Failing(1)).e.thrown = "throw"
  /\ Elements(CopyAssign(vec["a"], vec["b"], FALSE, Failing(1)).v) = <<0>>

\* C5: Insert(p, value), p in [0, size], followed by Erase(p) leaves the
\* elements and the size as they were before the Insert, on the relocating
\* path (size = capacity) as on the in-place path.
C5_InsertEraseRoundTrip ==
  \A x \in Alive : \A kind \in UsableKinds : \A value \in Values :
  \A p \in 0..Size(vec[x]) :
    Let(Insert(vec[x], p, value, kind, Plain), LAMBDA i :
    Let(Erase(i.v, p, Plain), LAMBDA r :
      /\ ~Threw(i.e) /\ ~Threw(r.e)
      /\ Size(i.v) = Size(vec[x]) + 1
      /\ Elements(r.v) = Elements(vec[x])
      /\ Size(r.v) = Size(vec[x])))

\* a is full, so that Insert relocates, b is not, so that Insert shifts in
\* place; in both an Insert before an element and the Erase after it give
\* back the elements.
C5_Witness ==
  /\ vec["a"].alive /\ vec["b"].alive
  /\ Elements(vec["a"]) = <<1, 0>> /\ Capacity(vec["a"]) = 2
  /\ Elements(vec["b"]) = <<1>> /\ Capacity(vec["b"]) = 2
  /\ Elements(Insert(vec["a"], 1, 1, "move_ctor", Plain).v) = <<1, 1, 0>>
  /\ Elements(Insert(vec["b"], 0, 0, "move_ctor", Plain).v) = <<0, 1>>
  /\ Elements(Erase(Insert(vec["a"], 1, 1, "move_ctor", Plain).v, 1, Plain).v)
       = <<1, 0>>
  /\ Elements(Erase(Insert(vec["b"], 0, 0, "move_ctor", Plain).v, 0, Plain).v)
       = <<1>>

\* C6: Reserve(n) with n <= capacity changes nothing, and with n > capacity
\* makes the capacity n and leaves the size and the elements as they were;
\* a second Reserve(m), m <= n, leaves the capacity as the first left it.
C6_ReserveFrame ==
  \A x \in Alive : \A n \in 0..(MaxCap + 1) :
    Let(Reserve(vec[x], n, Plain), LAMBDA r :
      /\ ~Threw(r.e)
      /\ n <= Capacity(vec[x]) => r.v = vec[x] /\ r.e = Plain
      /\ n > Capacity(vec[x]) =>
           /\ Capacity(r.v) = n
           /\ Size(r.v) = Size(vec[x])
           /\ Elements(r.v) = Elements(vec[x])
      /\ \A m \in 0..n :
           Capacity(Reserve(r.v, m, Plain).v) = Capacity(r.v))

\* A Vector of size 3 and capacity 3, which Reserve(4) gives capacity 4.
C6_Witness ==
  /\ vec["a"].alive
  /\ Elements(vec["a"]) = <<0, 1, 1>> /\ Capacity(vec["a"]) = 3
  /\ Capacity(Reserve(vec["a"], 4, Plain).v) = 4
  /\ Elements(Reserve(vec["a"], 4, Plain).v) = <<0, 1, 1>>

\* The arguments of an insertion of value: an lvalue or an rvalue of T, or
\* arguments of a converting constructor.
Args(value) ==
  {[kind |-> kind, val |-> value, ref |-> -1] :
     kind \in UsableKinds \cup {"args_ctor"}}

\* C7: PushBack, EmplaceBack, Insert and Emplace called with size = capacity
\* leave the capacity max(1, 2 * capacity); called with size < capacity
\* they leave the capacity as it was.
C7_GrowthPolicy ==
  \A x \in Alive : \A value \in Values : \A arg \in Args(value) :
    LET cap  == Capacity(vec[x])
        want == IF Size(vec[x]) < cap THEN cap
                ELSE IF 2 * cap < 1 THEN 1 ELSE 2 * cap
    IN  /\ Capacity(EmplaceBack(vec[x], arg, Plain).v) = want
        /\ arg.kind # "args_ctor" =>
             Capacity(PushBack(vec[x], value, arg.kind, Plain).v) = want
        /\ \A p \in 0..Size(vec[x]) :
             /\ Capacity(Emplace(vec[x], p, arg, Plain).v) = want
             /\ arg.kind # "args_ctor" =>
                  Capacity(Insert(vec[x], p, value, arg.kind, Plain).v) = want

\* A full Vector of two elements, to which PushBack gives capacity 4, and
\* a Vector with room, whose capacity Insert leaves at 3.
C7_Witness ==
  /\ vec["a"].alive /\ vec["b"].alive
  /\ Size(vec["a"]) = 2 /\ Capacity(vec["a"]) = 2
  /\ Size(vec["b"]) = 1 /\ Capacity(vec["b"]) = 2
  /\ Capacity(PushBack(vec["a"], 1, "move_ctor", Plain).v) = 4
  /\ Capacity(Insert(vec["b"], 0, 1, "move_ctor", Plain).v) = 2

\* C8: the move constructor gives the new Vector the buffer, the size and
\* the capacity of the source and leaves the source with size 0, capacity 0
\* and no buffer; it allocates nothing and constructs, copies, moves and
\* destroys no element.
C8_MoveConstructorSteals ==
  \A y \in Alive :
    Let(VectorMove(vec[y], Plain), LAMBDA r :
      /\ r.v.alive
      /\ r.v.data_ = vec[y].data_
      /\ Size(r.v) = Size(vec[y])
      /\ Capacity(r.v) = Capacity(vec[y])
      /\ Elements(r.v) = Elements(vec[y])
      /\ Size(r.other) = 0
      /\ Capacity(r.other) = 0
      /\ r.other.data_.buffer_ = NullPtr
      /\ r.e = Plain)

\* A source of three elements in a buffer of four, which the move
\* constructor leaves empty.
C8_Witness ==
  /\ vec["a"].alive
  /\ Elements(vec["a"]) = <<1, 0, 1>> /\ Capacity(vec["a"]) = 4
  /\ Elements(VectorMove(vec["a"], Plain).v) = <<1, 0, 1>>
  /\ Capacity(VectorMove(vec["a"], Plain).v) = 4
  /\ Size(VectorMove(vec["a"], Plain).other) = 0

\* Resize(new_size) under the fault f throws in the value construction of a
\* new element: its Reserve returned and the call threw.
ValueConstructionThrows(v, new_size, f) ==
  /\ ~Threw(Reserve(v, new_size, f).e)
  /\ Resize(v, new_size, f).e.thrown = "throw"

\* C9 as the specification states it: when the value construction of a new
\* element throws during Resize(n), n > size, the Vector is as it was
\* before the call: size, capacity and elements.
C9_ResizeStrong ==
  \A x \in Alive : \A n \in (Size(vec[x]) + 1)..(MaxCap + 1) :
  \A k \in 1..n :
    ValueConstructionThrows(vec[x], n, Failing(k)) =>
      Let(Resize(vec[x], n, Failing(k)), LAMBDA r :
        /\ Size(r.v) = Size(vec[x])
        /\ Capacity(r.v) = Capacity(vec[x])
        /\ Elements(r.v) = Elements(vec[x]))

\* C9, amended: when the value construction of a new element throws during
\* Resize(n), n > size, the size and the elements are as before the call,
\* no slot at or after size holds an element and nothing is leaked; the
\* capacity is max(capacity, n), since the reallocation precedes the
\* construction and is not undone.
C9_ResizeOnThrow ==
  \A x \in Alive : \A n \in (Size(vec[x]) + 1)..(MaxCap + 1) :
  \A k \in 1..n :
    ValueConstructionThrows(vec[x], n, Failing(k)) =>
      Let(Resize(vec[x], n, Failing(k)), LAMBDA r :
        /\ Size(r.v) = Size(vec[x])
        /\ Elements(r.v) = Elements(vec[x])
        /\ Capacity(r.v) = IF n > Capacity(vec[x]) THEN n
                           ELSE Capacity(vec[x])
        /\ LivePrefix(r.v)
        /\ r.e.leaked = heap.leaked
        /\ ~r.e.ub)

\* T with a nothrow move: Resize(3) of <<1>> in a buffer of one reallocates
\* without a throw, and the value construction of the second new element
\* throws; the Vector is <<1>> in a buffer of three.
C9_Witness ==
  /\ vec["a"].alive /\ traits.nothrow_move_constructible
  /\ Elements(vec["a"]) = <<1>> /\ Capacity(vec["a"]) = 1
  /\ ValueConstructionThrows(vec["a"], 3, Failing(2))
  /\ Elements(Resize(vec["a"], 3, Failing(2)).v) = <<1>>
  /\ Capacity(Resize(vec["a"], 3, Failing(2)).v) = 3

\* v has an element, and no element of v was moved from.
HoldsValues(v) ==
  v.size_ > 0 /\ \A i \in 1..v.size_ : v.data_.buffer_[i] \in Values

\* The transfer of the elements of v into a new buffer of their size.
Transfer(v, f) ==
  MoveIfItsPossible(v.data_.buffer_, 0, v.size_, Allocate(v.size_), 0, f)

\* C10 as the specification states it: the transfer to a new buffer moves
\* the elements only if T's move constructor is nothrow, and otherwise
\* copies them, so that a transfer that throws leaves the elements of the
\* old buffer as they were.
C10_MoveOnlyIfNothrow ==
  \A x \in Alive :
    /\ HoldsValues(vec[x]) =>
         (Transfer(vec[x], Plain).src = vec[x].data_.buffer_
            <=> ~traits.nothrow_move_constructible)
    /\ \A n \in (Capacity(vec[x]) + 1)..(MaxCap + 1) :
       \A k \in 1..Size(vec[x]) :
         Let(Reserve(vec[x], n, Failing(k)), LAMBDA r :
           r.e.thrown = "throw" => Elements(r.v) = Elements(vec[x]))

\* C10, amended: the transfer to a new buffer moves the elements exactly
\* if T's move constructor is nothrow or T has no copy constructor, and
\* otherwise copies them.  With a nothrow move the transfer does not throw;
\* with a copy constructor, a Reserve or a relocating Emplace that throws
\* leaves the Vector as it was.  (A T with a throwing move and no copy
\* constructor is moved, and a throw leaves moved-from elements behind.)
C10_TransferPolicy ==
  \A x \in Alive :
    /\ HoldsValues(vec[x]) =>
         /\ Elements([vec[x] EXCEPT
                        !.data_.buffer_ = Transfer(vec[x], Plain).dst])
              = Elements(vec[x])
         /\ Transfer(vec[x], Plain).src = vec[x].data_.buffer_
              <=> ~(\/ traits.nothrow_move_constructible
                    \/ ~traits.copy_constructible)
    /\ \A k \in 1..(Size(vec[x]) + 1) :
         /\ \A n \in (Capacity(vec[x]) + 1)..(MaxCap + 1) :
              Let(Reserve(vec[x], n, Failing(k)), LAMBDA r :
                /\ traits.nothrow_move_constructible => ~Threw(r.e)
                /\ traits.copy_constructible /\ Threw(r.e) => r.v = vec[x])
         /\ Size(vec[x]) = Capacity(vec[x]) =>
              \A p \in 0..Size(vec[x]) : \A arg \in Args(1) :
                Let(Emplace(vec[x], p, arg, Failing(k)), LAMBDA r :
                  /\ traits.nothrow_move_constructible
                       /\ arg.kind = "move_ctor" => ~Threw(r.e)
                  /\ traits.copy_constructible /\ Threw(r.e) =>
                       r.v = vec[x])

\* T with a throwing move and a copy constructor: Reserve(3) of <<0, 1>>
\* copies, throws in the second copy and leaves <<0, 1>>.
C10_Witness ==
  /\ vec["a"].alive
  /\ ~traits.nothrow_move_constructible /\ traits.copy_constructible
  /\ Elements(vec["a"]) = <<0, 1>> /\ Capacity(vec["a"]) = 2
  /\ Reserve(vec["a"], 3, Failing(2)).e.thrown = "throw"
  /\ Elements(Reserve(vec["a"], 3, Failing(2)).v) = <<0, 1>>
  /\ Transfer(vec["a"], Plain).src = vec["a"].data_.buffer_

\* Emplace(index, arg) on v, in place and before end, throws in a move
\* assignment: the call throws with the fault k, and returns with it when
\* no assignment throws.
MoveAssignmentThrows(v, index, arg, k) ==
  /\ Emplace(v, index, arg, Failing(k)).e.thrown = "throw"
  /\ ~Threw(Emplace(v, index, arg, [Failing(k) EXCEPT !.assign = FALSE]).e)

\* C11: an Insert or Emplace before end with size < capacity that throws in
\* a move assignment, while it shifts the elements or assigns the temporary,
\* leaves size <= capacity and exactly the slots [0, size) live, leaks
\* nothing, and the destructor of the Vector then destroys every element
\* and leaves nothing leaked.
C11_InPlaceInsertBasic ==
  \A x \in Alive :
    Size(vec[x]) < Capacity(vec[x]) =>
      \A index \in 0..(Size(vec[x]) - 1) : \A arg \in Args(1) :
      \A k \in 1..(Size(vec[x]) + 2) :
        MoveAssignmentThrows(vec[x], index, arg, k) =>
          Let(Emplace(vec[x], index, arg, Failing(k)), LAMBDA r :
            /\ LivePrefix(r.v)
            /\ ~r.e.ub
            /\ r.e.leaked = heap.leaked
            /\ VectorDelete(r.v, r.e).leaked = heap.leaked)

\* A call in which operator new throws std::bad_alloc.
OutOfMemory == Ctx([fail |-> 0, oom |-> TRUE])

\* The call that ended as r threw std::bad_alloc and left v as it was:
\* size, capacity, buffer and elements; it allocated, released, constructed
\* and destroyed nothing.
LeftAsBefore(v, r) ==
  /\ r.e.thrown = "bad_alloc"
  /\ r.v = v
  /\ r.e.allocs = 0 /\ r.e.frees = 0 /\ r.e.ctors = 0 /\ r.e.dtors = 0
  /\ r.e.blocks = heap.blocks /\ r.e.leaked = heap.leaked /\ ~r.e.ub

\* C12: when the allocation of the new buffer fails in Reserve(n) or
\* Resize(n) with n > capacity, in PushBack, EmplaceBack, Insert or Emplace
\* with size = capacity, or in a copy assignment from a Vector larger than
\* the capacity, std::bad_alloc propagates and the Vector is as before the
\* call, with no new buffer.
C12_AllocationFailure ==
  \A x \in Alive :
    /\ \A n \in (Capacity(vec[x]) + 1)..(MaxCap + 1) :
         /\ LeftAsBefore(vec[x], Reserve(vec[x], n, OutOfMemory))
         /\ LeftAsBefore(vec[x], Resize(vec[x], n, OutOfMemory))
    /\ Size(vec[x]) = Capacity(vec[x]) =>
         \A arg \in Args(1) :
           /\ LeftAsBefore(vec[x], EmplaceBack(vec[x], arg, OutOfMemory))
           /\ arg.kind # "args_ctor" =>
                LeftAsBefore(vec[x],
                             PushBack(vec[x], 1, arg.kind, OutOfMemory))
           /\ \A p \in 0..Size(vec[x]) :
                /\ LeftAsBefore(vec[x], Emplace(vec[x], p, arg, OutOfMemory))
                /\ arg.kind # "args_ctor" =>
                     LeftAsBefore(vec[x],
                                  Insert(vec[x], p, 1, arg.kind, OutOfMemory))
    /\ traits.copy_constructible =>
         \A y \in Alive \ {x} :
           Size(vec[y]) > Capacity(vec[x]) =>
             LeftAsBefore(vec[x],
                          CopyAssign(vec[x], vec[y], FALSE, OutOfMemory))

\* A full Vector of two elements: Reserve(3) and PushBack each throw
\* std::bad_alloc when operator new does, and leave <<0, 1>>.
C12_Witness ==
  /\ vec["a"].alive /\ traits.copy_constructible
  /\ Elements(vec["a"]) = <<0, 1>> /\ Capacity(vec["a"]) = 2
  /\ Reserve(vec["a"], 3, OutOfMemory).e.thrown = "bad_alloc"
  /\ PushBack(vec["a"], 1, "copy_ctor", OutOfMemory).e.thrown = "bad_alloc"
  /\ Elements(Reserve(vec["a"], 3, OutOfMemory).v) = <<0, 1>>
  /\ Elements(PushBack(vec["a"], 1, "copy_ctor", OutOfMemory).v) = <<0, 1>>

\* The blocks v owns: one, unless its buffer is the null pointer.
Blocks(v) == IF v.data_.buffer_ = NullPtr THEN 0 ELSE 1

\* The call on v that returned as r constructed as many elements more than
\* it destroyed as v has gained, allocated as many blocks more than it
\* released as v has gained, leaked nothing and destroyed nothing that was
\* not alive.
Balanced(v, r) ==
  ~Threw(r.e) =>
    /\ r.e.ctors - r.e.dtors = Size(r.v) - Size(v)
    /\ r.e.allocs - r.e.frees = Blocks(r.v) - Blocks(v)
    /\ r.e.blocks - heap.blocks = Blocks(r.v) - Blocks(v)
    /\ r.e.leaked = heap.leaked
    /\ ~r.e.ub

\* C13: nothing is ever leaked or destroyed twice: the blocks allocated
\* and not released are the buffers of the Vectors that exist, no element
\* was left alive in a released block, and none was destroyed (or built)
\* where it should not; every operation that returns is balanced; and the
\* destructor destroys exactly the size elements, each once, and releases
\* the block once.
C13_NoLeakNoDoubleDestroy ==
  /\ heap.blocks = Cardinality({x \in Alive : Blocks(vec[x]) = 1})
  /\ heap.leaked = 0
  /\ ~heap.ub
  /\ \A x \in Alive :
       /\ LivePrefix(vec[x])
       /\ Let(VectorDelete(vec[x], Plain), LAMBDA d :
            /\ d.dtors = Size(vec[x]) /\ d.ctors = 0
            /\ d.frees = Blocks(vec[x]) /\ d.allocs = 0
            /\ d.blocks = heap.blocks - Blocks(vec[x])
            /\ d.leaked = 0 /\ ~d.ub)
       /\ \A n \in 0..(MaxCap + 1) :
            /\ Balanced(vec[x], Reserve(vec[x], n, Plain))
            /\ Balanced(vec[x], Resize(vec[x], n, Plain))
       /\ \A arg \in Args(1) : \A p \in 0..Size(vec[x]) :
            Balanced(vec[x], Emplace(vec[x], p, arg, Plain))
       /\ \A p \in 0..(Size(vec[x]) - 1) :
            Balanced(vec[x], Erase(vec[x], p, Plain))
       /\ Size(vec[x]) > 0 => Balanced(vec[x], PopBack(vec[x], Plain))
       /\ traits.copy_constructible =>
            \A y \in Alive :
              Balanced(vec[x], CopyAssign(vec[x], vec[y], x = y, Plain))

\* A Vector of three elements in a block of four, after a relocation, an
\* in-place insertion and an Erase; its destructor destroys three elements
\* and releases one block.
C13_Witness ==
  /\ vec["a"].alive /\ ~vec["b"].alive
  /\ Size(vec["a"]) = 3 /\ Capacity(vec["a"]) = 4
  /\ heap.blocks = 1
  /\ VectorDelete(vec["a"], Plain).dtors = 3
  /\ VectorDelete(vec["a"], Plain).frees = 1
  /\ VectorDelete(vec["a"], Plain).blocks = 0

\* The construction that ended as r threw in its k-th element constructor:
\* no Vector exists, the k - 1 elements constructed were destroyed, the one
\* block allocated was released, and nothing else was touched.
CleanedUp(r, k) ==
  /\ r.e.thrown = "throw"
  /\ r.v = NoVector
  /\ r.e.ctors = k - 1 /\ r.e.dtors = k - 1
  /\ r.e.allocs = 1 /\ r.e.frees = 1
  /\ r.e.blocks = heap.blocks /\ r.e.leaked = heap.leaked
  /\ ~r.e.ub

\* C14: a construction Vector(n), or a copy construction from a Vector of
\* n elements, whose k-th element constructor throws, k in 1..n, destroys
\* the k - 1 elements it constructed, each once, releases its block once
\* and destroys nothing else.  (The copy constructor reads its source
\* through a reference to const: it has no way to change it.)
C14_ConstructionCleanup ==
  /\ \A n \in 1..(MaxCap + 1) : \A k \in 1..n :
       CleanedUp(VectorSized(n, Failing(k)), k)
  /\ traits.copy_constructible =>
       \A y \in Alive : \A k \in 1..Size(vec[y]) :
         CleanedUp(VectorCopy(vec[y], Failing(k)), k)

\* A Vector of three elements, whose copy construction throws in the
\* third copy after two copies were made and destroyed.
C14_Witness ==
  /\ vec["a"].alive /\ traits.copy_constructible
  /\ Elements(vec["a"]) = <<1, 1, 0>>
  /\ VectorCopy(vec["a"], Failing(3)).e.thrown = "throw"
  /\ VectorCopy(vec["a"], Failing(3)).e.dtors = 2
  /\ VectorSized(3, Failing(3)).e.dtors = 2

\* C15: the relocating insert at index p on the copy path (size = capacity)
\* constructs the new element first.  When the (k - 1)-th copy of the
\* transfer throws, in the prefix (k <= p + 1) or in the suffix, the k - 1
\* objects constructed in the new buffer (the new element, and the copies
\* made) are destroyed, each once and no raw slot with them, the new buffer
\* is released with nothing alive in it, and the Vector is as before.  When
\* nothing throws, the size old elements are destroyed after the size + 1
\* constructions.
C15_RelocatingInsertRollback ==
  \A x \in Alive :
    ~MovesElements /\ Size(vec[x]) = Capacity(vec[x]) =>
      \A p \in 0..Size(vec[x]) : \A arg \in Args(1) :
        /\ \A k \in 2..(Size(vec[x]) + 1) :
             Let(EmplaceWithRelocation(vec[x], p, arg, Failing(k)), LAMBDA r :
               /\ r.e.thrown = "throw"
               /\ r.v = vec[x]
               /\ r.e.ctors = k - 1 /\ r.e.dtors = k - 1
               /\ r.e.allocs = 1 /\ r.e.frees = 1
               /\ r.e.blocks = heap.blocks /\ r.e.leaked = heap.leaked
               /\ ~r.e.ub)
        /\ Let(EmplaceWithRelocation(vec[x], p, arg, Plain), LAMBDA r :
             /\ ~Threw(r.e)
             /\ r.e.ctors = Size(vec[x]) + 1 /\ r.e.dtors = Size(vec[x])
             /\ r.e.leaked = heap.leaked /\ ~r.e.ub)

\* The copy path on a full Vector <<0, 1>>, Emplace at index 1: the second
\* constructor is the copy of the prefix, the third the copy of the
\* suffix; a throw in the third destroys the new element and the prefix.
C15_Witness ==
  /\ vec["a"].alive /\ ~MovesElements
  /\ Elements(vec["a"]) = <<0, 1>> /\ Capacity(vec["a"]) = 2
  /\ Let(EmplaceWithRelocation(vec["a"], 1,
           [kind |-> "copy_ctor", val |-> 1, ref |-> -1], Failing(2)),
         LAMBDA r : r.e.thrown = "throw" /\ r.e.dtors = 1 /\ r.v = vec["a"])
  /\ Let(EmplaceWithRelocation(vec["a"], 1,
           [kind |-> "copy_ctor", val |-> 1, ref |-> -1], Failing(3)),
         LAMBDA r : r.e.thrown = "throw" /\ r.e.dtors = 2 /\ r.v = vec["a"])

\* s with value inserted before its element of index p.
Inserted(s, p, value) ==
  SubSeq(s, 1, p) \o <<value>> \o SubSeq(s, p + 1, Len(s))

\* The Vector with the elements of v and capacity = size, as a copy
\* construction from v leaves it.
Full(v) ==
  [v EXCEPT !.data_ = [buffer_   |-> SubSeq(v.data_.buffer_, 1, v.size_),
                       capacity_ |-> v.size_]]

\* The call that ended as r returned, and left s with value inserted at p,
\* and returns the position p.
InsertedAt(r, s, p, value) ==
  /\ ~Threw(r.e)
  /\ Elements(r.v) = Inserted(s, p, value)
  /\ Size(r.v) = Len(s) + 1
  /\ r.ret = p

\* C16: an Insert or Emplace of value at p, p in [0, size], that returns
\* leaves the elements before p, value, and the elements from p on, in
\* this order, with size + 1, and returns the position p; the relocating
\* algorithm, on the same elements in a full buffer, and the algorithm in
\* place leave the same sequence.
C16_InsertResult ==
  \A x \in Alive : \A value \in Values : \A arg \in Args(value) :
  \A p \in 0..Size(vec[x]) :
    /\ InsertedAt(Emplace(vec[x], p, arg, Plain), Elements(vec[x]), p, value)
    /\ arg.kind # "args_ctor" =>
         InsertedAt(Insert(vec[x], p, value, arg.kind, Plain),
                    Elements(vec[x]), p, value)
    /\ InsertedAt(EmplaceWithRelocation(Full(vec[x]), p, arg, Plain),
                  Elements(vec[x]), p, value)
    /\ Size(vec[x]) < Capacity(vec[x]) =>
         /\ InsertedAt(EmplaceWithoutRelocation(vec[x], p, arg, Plain),
                       Elements(vec[x]), p, value)
         /\ Elements(EmplaceWithoutRelocation(vec[x], p, arg, Plain).v)
              = Elements(EmplaceWithRelocation(Full(vec[x]), p, arg, Plain).v)

\* <<0, 0, 0>> in a buffer of four: the Insert of 1 at index 1 shifts two
\* elements in place and gives <<0, 1, 0, 0>>, as the relocating algorithm
\* does from a full buffer.
C16_Witness ==
  /\ vec["a"].alive
  /\ Elements(vec["a"]) = <<0, 0, 0>> /\ Capacity(vec["a"]) = 4
  /\ Elements(Insert(vec["a"], 1, 1, "move_ctor", Plain).v) = <<0, 1, 0, 0>>
  /\ Capacity(Insert(vec["a"], 1, 1, "move_ctor", Plain).v) = 4
  /\ Insert(vec["a"], 1, 1, "move_ctor", Plain).ret = 1
  /\ Elements(EmplaceWithRelocation(Full(vec["a"]), 1,
                [kind |-> "move_ctor", val |-> 1, ref |-> -1], Plain).v)
       = <<0, 1, 0, 0>>

\* Exactly the slots [0, n) of buf hold objects.
LiveUpTo(buf, n) == \A i \in 1..Len(buf) : (buf[i] # Raw) <=> (i <= n)

\* C17: in an Insert or Emplace in place before end (size < capacity) in
\* which nothing throws, no constructor runs on a slot that holds an
\* object and no move assignment reads or writes a raw slot; after the
\* last element was move-constructed into the trailing slot, after each
\* assignment of the backward shift and at the end, exactly the slots
\* [0, size] hold objects; one object was constructed in the buffer, and
\* the only object destroyed is the temporary.
C17_InPlaceInsertLifetimes ==
  \A x \in Alive :
    Size(vec[x]) < Capacity(vec[x]) =>
      \A index \in 0..(Size(vec[x]) - 1) : \A arg \in Args(1) :
        /\ Let(MoveLast(vec[x], Plain), LAMBDA m :
             /\ ~m.e.ub /\ m.e.ctors = 1
             /\ \A j \in 0..(Size(vec[x]) - 1 - index) :
                  Let(MoveAssignSteps(m.buf, Size(vec[x]) - 2, Size(vec[x]) - 1,
                                      -1, j),
                      LAMBDA b : ~b.ub /\ LiveUpTo(b.buf, Size(vec[x]) + 1)))
        /\ Let(EmplaceWithoutRelocation(vec[x], index, arg, Plain), LAMBDA r :
             /\ ~Threw(r.e) /\ ~r.e.ub
             /\ r.e.ctors = 2 /\ r.e.dtors = 1
             /\ LiveUpTo(r.v.data_.buffer_, Size(vec[x]) + 1)
             /\ Size(r.v) = Size(vec[x]) + 1)

\* <<1, 0, 1>> in a buffer of four, Emplace at index 0: the last element
\* is moved into slot 3, two assignments shift the others, and slot 0 is
\* assigned.
C17_Witness ==
  /\ vec["a"].alive
  /\ Elements(vec["a"]) = <<1, 0, 1>> /\ Capacity(vec["a"]) = 4
  /\ MoveLast(vec["a"], Plain).buf = <<1, 0, MovedFrom, 1>>
  /\ MoveAssignSteps(MoveLast(vec["a"], Plain).buf, 1, 2, -1, 2).buf
       = <<MovedFrom, 1, 0, 1>>
  /\ ~EmplaceWithoutRelocation(vec["a"], 0,
        [kind |-> "args_ctor", val |-> 0, ref |-> -1], Plain).e.ub

\* n - m, if positive; 0 if not.
Surplus(n, m) == IF n > m THEN n - m ELSE 0

\* C18: a copy assignment x = y, x and y distinct, that returns leaves x
\* with the elements and the size of y.  If y's size is at most x's
\* capacity, the buffer is kept (nothing is allocated or released, capacity
\* as before), only the elements x lacks are constructed and only those it
\* has in surplus are destroyed, the common prefix being assigned; if not,
\* the capacity is y's size.  An assignment x = x changes nothing.  (The
\* operator reads y through a reference to const.)
C18_CopyAssignResult ==
  traits.copy_constructible =>
    \A x \in Alive :
      /\ CopyAssign(vec[x], vec[x], TRUE, Plain) = [v |-> vec[x], e |-> Plain]
      /\ \A y \in Alive \ {x} :
           Let(CopyAssign(vec[x], vec[y], FALSE, Plain), LAMBDA r :
             /\ ~Threw(r.e) /\ ~r.e.ub /\ r.e.leaked = heap.leaked
             /\ Elements(r.v) = Elements(vec[y])
             /\ Size(r.v) = Size(vec[y])
             /\ LivePrefix(r.v)
             /\ IF Size(vec[y]) <= Capacity(vec[x])
                THEN /\ Capacity(r.v) = Capacity(vec[x])
                     /\ r.e.allocs = 0 /\ r.e.frees = 0
                     /\ r.e.ctors = Surplus(Size(vec[y]), Size(vec[x]))
                     /\ r.e.dtors = Surplus(Size(vec[x]), Size(vec[y]))
                ELSE /\ Capacity(r.v) = Size(vec[y])
                     /\ r.e.allocs = 1 /\ r.e.frees = Blocks(vec[x])
                     /\ r.e.ctors = Size(vec[y])
                     /\ r.e.dtors = Size(vec[x]))

\* a = <<1>> in a buffer of two and b = <<0, 0>>: a = b assigns a[0] and
\* constructs a[1] in place; b = a assigns b[0] and destroys b[1].
C18_Witness ==
  /\ vec["a"].alive /\ vec["b"].alive /\ traits.copy_constructible
  /\ Elements(vec["a"]) = <<1>> /\ Capacity(vec["a"]) = 2
  /\ Elements(vec["b"]) = <<0, 0>>
  /\ Elements(CopyAssign(vec["a"], vec["b"], FALSE, Plain).v) = <<0, 0>>
  /\ Capacity(CopyAssign(vec["a"], vec["b"], FALSE, Plain).v) = 2
  /\ Elements(CopyAssign(vec["b"], vec["a"], FALSE, Plain).v) = <<1>>
  /\ CopyAssign(vec["b"], vec["a"], FALSE, Plain).e.dtors = 1

\* The contexts of a call that can fail in any of the ways of Faults.
Contexts(n) == {Ctx(f) : f \in Faults(TRUE, n)}

\* The call on v that ended as r, by a return or by an exception, left at
\* least the capacity v had.
KeepsCapacity(v, r) == Capacity(r.v) >= Capacity(v)

\* C19: Reserve, Resize, PushBack, EmplaceBack, PopBack, Insert, Emplace,
\* Erase and copy assignment, whether they return or throw, leave a
\* capacity that is at least the capacity before the call.
C19_CapacityNeverDecreases ==
  \A x \in Alive :
    LET v == vec[x] IN
    /\ \A n \in 0..(MaxCap + 1) :
         /\ \A e \in Contexts(Size(v)) : KeepsCapacity(v, Reserve(v, n, e))
         /\ \A e \in Contexts(n) : KeepsCapacity(v, Resize(v, n, e))
    /\ \A arg \in Args(1) : \A e \in Contexts(Size(v) + 1) :
         /\ KeepsCapacity(v, EmplaceBack(v, arg, e))
         /\ arg.kind # "args_ctor" =>
              KeepsCapacity(v, PushBack(v, 1, arg.kind, e))
         /\ \A p \in 0..Size(v) :
              /\ KeepsCapacity(v, Emplace(v, p, arg, e))
              /\ arg.kind # "args_ctor" =>
                   KeepsCapacity(v, Insert(v, p, 1, arg.kind, e))
    /\ traits.copy_constructible =>
         \A y \in Alive : \A e \in Contexts(Size(vec[y])) :
           KeepsCapacity(v, CopyAssign(v, vec[y], x = y, e))
    /\ Size(v) > 0 =>
         /\ KeepsCapacity(v, PopBack(v, Plain))
         /\ \A p \in 0..(Size(v) - 1) : KeepsCapacity(v, Erase(v, p, Plain))

\* One element in a buffer of four: Reserve(2), Resize(0), PopBack and the
\* assignment of an empty Vector leave the capacity 4; a move construction
\* from it leaves it the capacity 0.
C19_Witness ==
  /\ vec["a"].alive /\ vec["b"].alive /\ traits.copy_constructible
  /\ Size(vec["a"]) = 1 /\ Capacity(vec["a"]) = 4
  /\ Size(vec["b"]) = 0
  /\ Capacity(Reserve(vec["a"], 2, Plain).v) = 4
  /\ Capacity(Resize(vec["a"], 0, Plain).v) = 4
  /\ Capacity(PopBack(vec["a"], Plain).v) = 4
  /\ Capacity(CopyAssign(vec["a"], vec["b"], FALSE, Plain).v) = 4
  /\ Capacity(VectorMove(vec["a"], Plain).other) = 0

\* The argument v[i] of Insert(pos, const T &) and PushBack(const T &): a
\* reference to the element of index i of the Vector itself.  (val is what
\* a call that did not read through the reference would insert.)
Self(i) == [kind |-> "copy_ctor", val |-> DefaultVal, ref |-> i]

\* C20: Insert(p, v[i]) and PushBack(v[i]), i < size and p in [0, size],
\* with v[i] passed by reference to const, insert the value v[i] had before
\* the call, read from an element that is alive, when the Vector relocates
\* (size = capacity) and when it inserts in place.
C20_SelfInsert ==
  traits.copy_constructible =>
    \A x \in Alive : \A i \in 0..(Size(vec[x]) - 1) :
      LET s == Elements(vec[x]) IN
      /\ \A p \in 0..Size(vec[x]) :
           /\ InsertedAt(Emplace(vec[x], p, Self(i), Plain), s, p, s[i + 1])
           /\ ~Emplace(vec[x], p, Self(i), Plain).e.ub
           /\ InsertedAt(EmplaceWithRelocation(Full(vec[x]), p, Self(i), Plain),
                         s, p, s[i + 1])
           /\ ~EmplaceWithRelocation(Full(vec[x]), p, Self(i), Plain).e.ub
      /\ Elements(EmplaceBack(vec[x], Self(i), Plain).v) = Append(s, s[i + 1])
      /\ Elements(EmplaceBack(Full(vec[x]), Self(i), Plain).v)
           = Append(s, s[i + 1])

\* <<0, 1>> in a buffer of four: Insert(begin(), v[1]) in place gives
\* <<1, 0, 1>>, though v[1] is moved from before slot 0 is assigned; from a
\* full buffer the relocating insert gives the same.
C20_Witness ==
  /\ vec["a"].alive /\ traits.copy_constructible
  /\ Elements(vec["a"]) = <<0, 1>> /\ Capacity(vec["a"]) = 4
  /\ Elements(Emplace(vec["a"], 0, Self(1), Plain).v) = <<1, 0, 1>>
  /\ Capacity(Emplace(vec["a"], 0, Self(1), Plain).v) = 4
  /\ Elements(Emplace(Full(vec["a"]), 0, Self(1), Plain).v) = <<1, 0, 1>>
  /\ Elements(EmplaceBack(Full(vec["a"]), Self(0), Plain).v) = <<0, 1, 0>>

====
